---- MODULE Spec2Model ----
(***************************************************************************)
(* Model of the gocache in-memory cache: the primary map, the intrusive    *)
(* recency chain (head/tail, next/previous), the LFU frequency list, the   *)
(* size and memory bounds, TTL expiry and the janitor.                     *)
(*                                                                         *)
(* Go pointers are modelled as indexes into two heaps: `heap` holds the    *)
(* Entry objects, `items` holds the list.Element/FrequencyItem objects of  *)
(* the frequency list.  Nil is 0.  An object that no pointer reaches any   *)
(* more is reset to the unallocated value, as the garbage collector would  *)
(* reclaim it.  Every handler that holds c.mutex for its whole body is one *)
(* atomic action.                                                          *)
(***************************************************************************)
EXTENDS Integers, Sequences, FiniteSets, TLC

\* ---------------------------------------------------------------- bounds
MaxEntries == 2
MaxStat == 2
MaxFreq == 2
MemLimit == 2

\* ------------------------------------------------------- program constants
NoMaxSize == 0
NoMaxMemoryUsage == 0
NoExpiration == -1
\* The reading of the wall clock.  Time is measured from a moving origin: when
\* the clock advances the reading stays and every stored instant moves one
\* unit nearer.
Now == 2
\* Scaled down from 1000 and 25 so that a slice can exhaust its budget on a
\* cache of MaxEntries entries.
JanitorMaxIterationsPerShift == 1
JanitorShiftTarget == 1
JanitorMinShiftBackOff == 50
JanitorMaxShiftBackOff == 500

FirstInFirstOut == "FirstInFirstOut"
LeastRecentlyUsed == "LeastRecentlyUsed"
LeastFrequentUsed == "LeastFrequentUsed"
EvictionPolicy == {FirstInFirstOut, LeastRecentlyUsed, LeastFrequentUsed}

\* ----------------------------------------------------------------- inputs
Keys == {"a", "b", "c"}
\* A value is a character sequence, represented by its length.
Values == {1, 2}
\* TTLs that create or update (NoExpiration or strictly positive), and TTLs
\* that do not
GoodTTLs == {NoExpiration, 1}
BadTTLs == {-2, 0}
ExpireTTLs == {NoExpiration, 0, 1}
\* with a ttl that lies in the past
ExpireAnyTTLs == ExpireTTLs \cup {-2}

Nil == 0
NoKey == "-"
NoValue == 0
\* Values with the nil value
NilValues == {NoValue, 1}
\* One Entry more than a call may leave behind: SetWithTTL allocates before
\* it evicts.
EntryIds == 1..(MaxEntries + 1)
ItemIds == 1..(MaxEntries + 2)

\* Entry struct; RelevantTimestamp is written by SetWithTTL and Accessed but
\* read by no operation, so it is not carried.
FreeEntry ==
  [Key |-> NoKey, Value |-> NoValue, Expiration |-> NoExpiration,
   next |-> Nil, previous |-> Nil, frequencyParent |-> Nil]

\* FrequencyItem struct (the Value of a list.Element of c.freqs)
FreeItem == [Freq |-> 0, Entries |-> {}]

\* No Expire is between its lookup and its write.
NoExpire == [entry |-> Nil, ttl |-> NoExpiration]

VARIABLES
  maxSize, maxMemoryUsage, evictionPolicy,   \* Cache configuration
  entries,                                   \* c.entries: key -> *Entry
  heap,                                      \* the Entry objects
  head, tail,                                \* c.head, c.tail
  freqs,                                     \* c.freqs: list of elements, front first
  items,                                     \* the FrequencyItem objects
  memoryUsage,                               \* c.memoryUsage
  stats,                                     \* c.stats
  stopJanitor,                               \* c.stopJanitor != nil
  lastTraversedNode, backOff,                \* locals of the janitor goroutine
  janitorPc,                                 \* where the janitor goroutine is
  stopPc,                                    \* where the caller of StopJanitor is
  expiring,                                  \* the locals of an Expire between its lookup and its write
  racerPc,                                   \* where a second goroutine that calls StartJanitor or StopJanitor is
  racerJanitor,                              \* the janitor goroutine that second caller started is live
  status,                                    \* "running", "panicked" or "hung"
  lastSet,                                   \* history: the value last set for a mapped key
  order,                                     \* history: the mapped keys, latest use first
  returned                                   \* history: what the last step returned, for the calls that are Recorded

vars == <<maxSize, maxMemoryUsage, evictionPolicy, entries, heap, head, tail,
          freqs, items, memoryUsage, stats, stopJanitor, lastTraversedNode,
          backOff, janitorPc, stopPc, expiring, racerPc, racerJanitor, status,
          lastSet, order, returned>>

config == <<maxSize, maxMemoryUsage, evictionPolicy>>

\* The second caller of StartJanitor and StopJanitor
racers == <<racerPc, racerJanitor>>

\* What a call that is not StartJanitor, StopJanitor or Expire leaves alone
janitorState == <<stopJanitor, backOff, janitorPc, stopPc, expiring>>


\* ------------------------------------------------------------ Entry methods
\* Entry.SizeInBytes: the key's length plus the value's length.
SizeInBytes(e) == 1 + e.Value

\* Entry.Expired
Expired(e) == e.Expiration > 0 /\ Now > e.Expiration

\* time.Now().Add(ttl).UnixNano(), or NoExpiration.  An instant before Now is
\* kept as Now - 1, as Tick keeps it: how long ago it was makes no difference.
ExpirationFor(ttl) ==
  IF ttl # NoExpiration
  THEN IF ttl < 0 THEN Now - 1 ELSE Now + ttl
  ELSE NoExpiration

\* ------------------------------------------------- the cache as one record
\* The handlers are written as functions from cache record to cache record;
\* panicked is set when the handler dereferences a nil pointer, hung when its
\* loop can make no progress.  held are the entries that the locals of a call
\* in progress point to.
Cache ==
  [entries |-> entries, heap |-> heap, head |-> head, tail |-> tail,
   freqs |-> freqs, items |-> items, memoryUsage |-> memoryUsage,
   stats |-> stats, panicked |-> FALSE, hung |-> FALSE,
   held |-> {expiring.entry} \ {Nil}]

Len0(c) == Cardinality(DOMAIN c.entries)

\* ----------------------------------------------------- container/list
InList(c, it) == \E i \in 1..Len(c.freqs) : c.freqs[i] = it

IndexOf(c, it) == CHOOSE i \in 1..Len(c.freqs) : c.freqs[i] = it

\* List.Front
Front(c) == IF c.freqs = <<>> THEN Nil ELSE c.freqs[1]

\* Element.Next: nil for the last element and for an element that was removed
ElemNext(c, it) ==
  IF InList(c, it) /\ IndexOf(c, it) < Len(c.freqs)
  THEN c.freqs[IndexOf(c, it) + 1] ELSE Nil

\* List.Remove: no effect on an element that is not in the list
ListRemove(c, it) ==
  IF InList(c, it)
  THEN [c EXCEPT !.freqs = SubSeq(c.freqs, 1, IndexOf(c, it) - 1)
                           \o SubSeq(c.freqs, IndexOf(c, it) + 1, Len(c.freqs))]
  ELSE c

\* new(FrequencyItem): an object no pointer reaches
NewItem(c) ==
  CHOOSE it \in ItemIds :
    /\ ~InList(c, it)
    /\ \A e \in EntryIds : c.heap[e].frequencyParent # it
    /\ \A j \in ItemIds :
         (~InList(c, j) /\ \A e \in EntryIds : c.heap[e].frequencyParent # j) => it <= j

\* ------------------------------------------------------------- eviction.go
\* removeExistingEntryReferences
removeExistingEntryReferences(c, entry) ==
  LET c1 == IF c.tail = entry /\ c.head = entry
            THEN [c EXCEPT !.tail = Nil, !.head = Nil]
            ELSE IF c.tail = entry
            THEN [c EXCEPT !.tail = c.heap[c.tail].previous]
            ELSE IF c.head = entry
            THEN [c EXCEPT !.head = c.heap[c.head].next]
            ELSE c
      h1 == c1.heap
      h2 == IF h1[entry].previous # Nil
            THEN [h1 EXCEPT ![h1[entry].previous].next = h1[entry].next]
            ELSE h1
      h3 == IF h2[entry].next # Nil
            THEN [h2 EXCEPT ![h2[entry].next].previous = h2[entry].previous]
            ELSE h2
      h4 == [h3 EXCEPT ![entry].next = Nil, ![entry].previous = Nil]
  IN [c1 EXCEPT !.heap = h4]

\* A cache whose entries stay where they are in the chain
keepEntryInPlace(c, entry) == c

\* moveExistingEntryToHead
moveExistingEntryToHead(c, entry) ==
  LET c1 == IF ~(entry = c.head /\ entry = c.tail)
            THEN removeExistingEntryReferences(c, entry)
            ELSE c
  IN IF entry # c1.head
     THEN LET h1 == [c1.heap EXCEPT ![entry].next = c1.head,
                                    ![entry].previous = Nil]
              h2 == IF c1.head # Nil
                    THEN [h1 EXCEPT ![c1.head].previous = entry]
                    ELSE h1
          IN [c1 EXCEPT !.heap = h2, !.head = entry]
     ELSE c1

\* ------------------------------------------------------------ frequency.go
\* removeEntryFromFrequencyList; listItem.Value on a nil listItem panics
removeEntryFromFrequencyList(c, listItem, item) ==
  IF listItem = Nil
  THEN [c EXCEPT !.panicked = TRUE]
  ELSE LET c1 == [c EXCEPT !.items[listItem].Entries = @ \ {item}]
       IN IF c1.items[listItem].Entries = {}
          THEN ListRemove(c1, listItem)
          ELSE c1

\* An insertion that puts the new element first, wherever the mark is
InsertFirst(c, newItem, mark) == <<newItem, <<newItem>> \o c.freqs>>

\* c.freqs.InsertAfter(newFrequencyItem, mark): the element it returns and
\* the list it leaves; it returns nil when the mark is not an element of the
\* list.
InsertAfter(c, newItem, mark) ==
  IF InList(c, mark)
  THEN <<newItem,
         SubSeq(c.freqs, 1, IndexOf(c, mark))
         \o <<newItem>>
         \o SubSeq(c.freqs, IndexOf(c, mark) + 1, Len(c.freqs))>>
  ELSE <<Nil, c.freqs>>

\* incrementEntryFrequency
incrementEntryFrequency(c, entry) ==
  LET currentFrequency == c.heap[entry].frequencyParent
      nextFrequencyAmount ==
        IF currentFrequency = Nil THEN 1
        ELSE c.items[currentFrequency].Freq + 1
      nextFrequency0 ==
        IF currentFrequency = Nil THEN Front(c)
        ELSE ElemNext(c, currentFrequency)
      create == \/ nextFrequency0 = Nil
                \/ c.items[nextFrequency0].Freq # nextFrequencyAmount
      newItem == NewItem(c)
      inserted ==
        IF currentFrequency = Nil
        THEN <<newItem, <<newItem>> \o c.freqs>>
        ELSE InsertAfter(c, newItem, currentFrequency)
      nextFrequency == IF create THEN inserted[1] ELSE nextFrequency0
      c1 == IF create
            THEN [c EXCEPT !.items[newItem] =
                              [Freq |-> nextFrequencyAmount, Entries |-> {}],
                           !.freqs = inserted[2]]
            ELSE c
  IN IF nextFrequency = Nil
     THEN \* nextFrequency.Value on a nil element
          [c1 EXCEPT !.heap[entry].frequencyParent = Nil, !.panicked = TRUE]
     ELSE LET c2 == [c1 EXCEPT !.heap[entry].frequencyParent = nextFrequency,
                               !.items[nextFrequency].Entries = @ \cup {entry}]
          IN IF currentFrequency # Nil
             THEN removeEntryFromFrequencyList(c2, currentFrequency, entry)
             ELSE c2

\* ------------------------------------------------------------------ delete
\* delete(c.entries, key) of the builtin map
MapDelete(m, key) == [k \in (DOMAIN m) \ {key} |-> m[k]]

\* Cache.delete
delete(c, key) ==
  IF key \in DOMAIN c.entries
  THEN LET entry == c.entries[key]
           c1 == IF maxMemoryUsage # NoMaxMemoryUsage
                 THEN [c EXCEPT !.memoryUsage = @ - SizeInBytes(c.heap[entry])]
                 ELSE c
           c2 == IF evictionPolicy = LeastFrequentUsed
                 THEN removeEntryFromFrequencyList(
                        c1, c1.heap[entry].frequencyParent, entry)
                 ELSE c1
       IN IF c2.panicked THEN c2
          ELSE LET c3 == removeExistingEntryReferences(c2, entry)
               IN [c3 EXCEPT !.entries = MapDelete(c3.entries, key)]
  ELSE c

\* -------------------------------------------------------------------- evict
\* One iteration of the range loop of evict over the front FrequencyItem
evictEntry(c, item, entry) ==
  LET c1 == removeExistingEntryReferences(c, entry)
      c2 == [c1 EXCEPT !.entries = MapDelete(c1.entries, c1.heap[entry].Key)]
      c3 == removeEntryFromFrequencyList(c2, item, entry)
      c4 == [c3 EXCEPT !.stats.EvictedKeys = @ + 1]
  IN IF maxMemoryUsage # NoMaxMemoryUsage
     THEN [c4 EXCEPT !.memoryUsage = @ - SizeInBytes(c.heap[entry])]
     ELSE c4

\* The range loop of evict: Go visits the members of the map in any order.
RECURSIVE evictItem(_, _, _)
evictItem(c, item, todo) ==
  IF todo = {} THEN {c}
  ELSE UNION {evictItem(evictEntry(c, item, entry), item, todo \ {entry})
              : entry \in todo}

\* An evict that removes the head of the chain
evictHead(c) ==
  LET oldHead == c.head
      c1 == removeExistingEntryReferences(c, oldHead)
      c2 == [c1 EXCEPT !.entries = MapDelete(c1.entries, c1.heap[oldHead].Key)]
  IN [c2 EXCEPT !.stats.EvictedKeys = @ + 1]

\* The FIFO/LRU branch of evict
evictTail(c) ==
  LET oldTail == c.tail
      c1 == removeExistingEntryReferences(c, oldTail)
      c2 == [c1 EXCEPT !.entries = MapDelete(c1.entries, c1.heap[oldTail].Key)]
      c3 == IF maxMemoryUsage # NoMaxMemoryUsage
            THEN [c2 EXCEPT !.memoryUsage = @ - SizeInBytes(c.heap[oldTail])]
            ELSE c2
  IN [c3 EXCEPT !.stats.EvictedKeys = @ + 1]

\* evict: the set of caches it can leave
evict(c) ==
  IF c.tail = Nil \/ Len0(c) = 0 THEN {c}
  ELSE IF evictionPolicy = LeastFrequentUsed
  THEN IF Front(c) # Nil
       THEN evictItem(c, Front(c), c.items[Front(c)].Entries)
       ELSE {c}
  ELSE {evictTail(c)}

\* The loop left out: nothing is evicted for memory
keepOverMemory(c) == {c}

\* for c.memoryUsage > c.maxMemoryUsage && len(c.entries) > 0 { c.evict() }
\* An evict that changes nothing leaves the loop condition true for ever.
RECURSIVE evictWhileOverMemory(_)
evictWhileOverMemory(c) ==
  IF c.memoryUsage > maxMemoryUsage /\ Len0(c) > 0
  THEN UNION {IF r = c THEN {[c EXCEPT !.hung = TRUE]}
              ELSE evictWhileOverMemory(r) : r \in evict(c)}
  ELSE {c}

\* ------------------------------------------------------------ SetWithTTL
\* &Entry{...}: an object no pointer reaches
NewEntry(c) ==
  CHOOSE e \in EntryIds :
    c.heap[e] = FreeEntry /\ \A f \in EntryIds : c.heap[f] = FreeEntry => e <= f

\* The part of SetWithTTL after entry.Expiration is set
setEnforceBounds(c, entry) ==
  IF maxSize = NoMaxSize /\ maxMemoryUsage = NoMaxMemoryUsage
  THEN {c}
  ELSE LET afterSize ==
             IF maxSize # NoMaxSize /\ Len0(c) > maxSize
             THEN evict(c) ELSE {c}
           afterMemory ==
             UNION {IF maxMemoryUsage # NoMaxMemoryUsage
                       /\ c1.memoryUsage > maxMemoryUsage
                    THEN evictWhileOverMemory(c1) ELSE {c1} : c1 \in afterSize}
       IN {IF c2.hung THEN c2
           ELSE IF evictionPolicy = LeastFrequentUsed
           THEN incrementEntryFrequency(c2, entry)
           ELSE c2 : c2 \in afterMemory}

\* SetWithTTL when the key is not mapped and the entry is to be created
setNewEntry(c, key, value) ==
  LET entry == NewEntry(c)
      h1 == [c.heap EXCEPT ![entry] =
               [Key |-> key, Value |-> value, Expiration |-> 0,
                next |-> c.head, previous |-> Nil,
                frequencyParent |-> Nil]]
      h2 == IF c.head = Nil THEN h1
            ELSE [h1 EXCEPT ![c.head].previous = entry]
      c1 == [c EXCEPT !.heap = h2,
                      !.tail = IF c.head = Nil THEN entry ELSE c.tail,
                      !.head = entry,
                      !.entries = [k \in DOMAIN c.entries \cup {key} |->
                                     IF k = key THEN entry ELSE c.entries[k]]]
  IN IF maxMemoryUsage # NoMaxMemoryUsage
     THEN [c1 EXCEPT !.memoryUsage = @ + SizeInBytes(h2[entry])]
     ELSE c1

\* An update that keeps the value the entry had
setExistingEntryKeepingValue(c, entry, value) ==
  moveExistingEntryToHead(c, entry)

\* SetWithTTL when the key is mapped and the entry is to be updated
setExistingEntry(c, entry, value) ==
  LET c0 == IF maxMemoryUsage # NoMaxMemoryUsage
            THEN [c EXCEPT !.memoryUsage = @ - SizeInBytes(c.heap[entry])]
            ELSE c
      c1 == [c0 EXCEPT !.heap[entry].Value = value]
      c2 == IF maxMemoryUsage # NoMaxMemoryUsage
            THEN [c1 EXCEPT !.memoryUsage = @ + SizeInBytes(c1.heap[entry])]
            ELSE c1
  IN moveExistingEntryToHead(c2, entry)

\* SetWithTTL between Lock and Unlock: the set of caches it can leave
setWithTTL(c, key, value, ttl) ==
  IF ttl # NoExpiration /\ ttl < 1
  THEN IF key \notin DOMAIN c.entries THEN {c} ELSE {delete(c, key)}
  ELSE LET c1 == IF key \notin DOMAIN c.entries
                 THEN setNewEntry(c, key, value)
                 ELSE setExistingEntry(c, c.entries[key], value)
           entry == c1.entries[key]
           c2 == [c1 EXCEPT !.heap[entry].Expiration = ExpirationFor(ttl)]
       IN setEnforceBounds(c2, entry)

\* ---------------------------------------------------------------- Get
\* Get that counts a hit whether it finds the key or not
getCountingHits(c, key) ==
  [c |-> [c EXCEPT !.stats.Hits = @ + 1],
   ok |-> key \in DOMAIN c.entries,
   value |-> IF key \in DOMAIN c.entries THEN c.heap[c.entries[key]].Value
             ELSE NoValue]

\* Get between Lock and Unlock: the cache it leaves and what it returns
getLocked(c, key) ==
  IF key \notin DOMAIN c.entries
  THEN [c |-> [c EXCEPT !.stats.Misses = @ + 1], ok |-> FALSE, value |-> NoValue]
  ELSE LET entry == c.entries[key] IN
       IF Expired(c.heap[entry])
       THEN [c |-> delete([c EXCEPT !.stats.ExpiredKeys = @ + 1], key),
             ok |-> FALSE, value |-> NoValue]
       ELSE LET c1 == [c EXCEPT !.stats.Hits = @ + 1]
                c2 == IF evictionPolicy = LeastRecentlyUsed /\ c1.head # entry
                      THEN moveExistingEntryToHead(c1, entry)
                      ELSE c1
                c3 == IF evictionPolicy = LeastFrequentUsed
                      THEN incrementEntryFrequency(c2, entry)
                      ELSE c2
            IN [c |-> c3, ok |-> TRUE, value |-> c.heap[entry].Value]

\* m[key] = value of the builtin map
MapPut(m, key, value) ==
  [k \in DOMAIN m \cup {key} |-> IF k = key THEN value ELSE m[k]]

\* entries[key], _ = c.Get(key): the result of GetByKeys so far, with the cache,
\* after the Get g of one more key
getByKeysPut(result, key, g) ==
  [result EXCEPT !.c = g.c,
                 !.entries = MapPut(@, key, g.value),
                 !.hits = IF g.ok THEN Append(@, key) ELSE @]

\* The same, leaving a key that is not found out of the map
getByKeysPutFound(result, key, g) ==
  [result EXCEPT !.c = g.c,
                 !.entries = IF g.ok THEN MapPut(@, key, g.value) ELSE @,
                 !.hits = IF g.ok THEN Append(@, key) ELSE @]

\* GetByKeys that leaves the keys it does not find out of the map it returns
RECURSIVE getByKeysFound(_, _)
getByKeysFound(keys, result) ==
  IF keys = <<>> \/ result.c.panicked THEN result
  ELSE getByKeysFound(
         Tail(keys),
         getByKeysPutFound(result, Head(keys), getLocked(result.c, Head(keys))))

\* GetByKeys: one Get for each key, from the cache and the map of result; the
\* cache it leaves, the map it returns and the keys it found
RECURSIVE getByKeys(_, _)
getByKeys(keys, result) ==
  IF keys = <<>> \/ result.c.panicked THEN result
  ELSE getByKeys(
         Tail(keys),
         getByKeysPut(result, Head(keys), getLocked(result.c, Head(keys))))

\* The range loop of GetAll over c.entries, in any order: the caches it can
\* leave.  The keys deleted on the way are no longer visited.
RECURSIVE getAllLoop(_, _)
getAllLoop(c, todo) ==
  IF c.panicked \/ todo \cap DOMAIN c.entries = {} THEN {c}
  ELSE UNION {getAllLoop(IF Expired(c.heap[c.entries[key]])
                         THEN delete(c, key) ELSE c,
                         todo \ {key})
              : key \in todo \cap DOMAIN c.entries}

\* ------------------------------------------------------------ the janitor
\* The entries met from e through next, added to seen
RECURSIVE chainFrom(_, _, _)
chainFrom(c, e, seen) ==
  IF e = Nil \/ e \in seen THEN seen
  ELSE chainFrom(c, c.heap[e].next, seen \cup {e})

\* c.get(entry.Key) returns entry itself
isInCache(c, entry) ==
  /\ c.heap[entry].Key \in DOMAIN c.entries
  /\ c.entries[c.heap[entry].Key] = entry

\* What the janitor meets when it walks to current: whether the entry is in
\* the map and in the recency chain at that moment
Visit(c, current) ==
  [entry |-> current, inMap |-> isInCache(c, current),
   inChain |-> current \in chainFrom(c, c.head, {})]

\* The adjustment that doubles whatever the slice found
backOffNeverReset(bo, found) ==
  IF bo * 2 <= JanitorMaxShiftBackOff THEN bo * 2
  ELSE JanitorMaxShiftBackOff

\* if steps == JanitorMaxIterationsPerShift || expiredEntriesFound >=
\* JanitorShiftTarget { ... }: the back-off the slice leaves when it stops there
backOffAfterShift(bo, found) ==
  IF found > 0 THEN JanitorMinShiftBackOff
  ELSE IF bo * 2 <= JanitorMaxShiftBackOff THEN bo * 2
  ELSE JanitorMaxShiftBackOff

\* A slice that ends with the cache c and the locals last and bo, after it
\* found so many expired entries; ended tells which exit the loop took.
ShiftEnds(c, last, bo, found, ended, visits) ==
  [c |-> c, last |-> last, backOff |-> bo, found |-> found, ended |-> ended,
   visits |-> visits]

\* c.stats.ExpiredKeys++ after the delete that left d
expiredKeyDeleted(d) ==
  IF d.panicked THEN d ELSE [d EXCEPT !.stats.ExpiredKeys = @ + 1]

\* c.delete(current.Key); c.stats.ExpiredKeys++
janitorDelete(c, current) == expiredKeyDeleted(delete(c, c.heap[current].Key))

\* The for loop of a janitor slice, from its top with the given locals
RECURSIVE janitorLoop(_, _, _, _, _, _, _)
janitorLoop(c, current, steps0, found0, last, bo, visits0) ==
  IF current = Nil \/ c.panicked
  THEN ShiftEnds(c, last, bo, found0, "nil", visits0)
  ELSE LET steps == steps0 + 1
           isExpired == Expired(c.heap[current])
           found == IF isExpired THEN found0 + 1 ELSE found0
           previous == IF isExpired THEN c.heap[current].previous ELSE Nil
           c1 == IF isExpired THEN janitorDelete(c, current) ELSE c
           visits == Append(visits0, Visit(c, current))
       IN IF c1.panicked THEN ShiftEnds(c1, last, bo, found, "panic", visits)
          ELSE IF current = c1.head
          THEN ShiftEnds(c1, Nil, bo, found, "head", visits)
          ELSE LET nxt == IF previous # Nil THEN previous
                          ELSE c1.heap[current].previous
               IN IF steps = JanitorMaxIterationsPerShift
                     \/ found >= JanitorShiftTarget
                  THEN ShiftEnds(c1, nxt, backOffAfterShift(bo, found), found,
                                 "budget", visits)
                  ELSE janitorLoop(c1, nxt, steps, found, nxt, bo, visits)

\* The entry a slice starts from: the saved cursor when its key still maps to
\* the same entry, the tail otherwise
shiftStart(c, last) ==
  IF last # Nil /\ isInCache(c, last) THEN last ELSE c.tail

\* One tick of the janitor between Lock and Unlock
janitorShift(c, last, bo) ==
  IF c.tail # Nil
  THEN janitorLoop(c, shiftStart(c, last), 0, 0, last, bo, <<>>)
  ELSE ShiftEnds(c, last,
                 IF bo * 2 < JanitorMaxShiftBackOff THEN bo * 2
                 ELSE JanitorMaxShiftBackOff,
                 0, "empty", <<>>)

\* ------------------------------------------------------ garbage collection
Range(f) == {f[x] : x \in DOMAIN f}

\* The Entry objects some pointer of the program still reaches
RECURSIVE Reach(_, _)
Reach(c, S) ==
  LET T == (S \cup {c.heap[e].next : e \in S}
              \cup {c.heap[e].previous : e \in S}
              \cup UNION {c.items[c.heap[e].frequencyParent].Entries
                          : e \in {x \in S : c.heap[x].frequencyParent # Nil}})
           \ {Nil}
  IN IF T = S THEN S ELSE Reach(c, T)

Roots(c, last) ==
  (Range(c.entries) \cup {c.head, c.tail, last} \cup c.held
     \cup UNION {c.items[it].Entries : it \in Range(c.freqs)}) \ {Nil}

\* The Entry objects joined to S by next and previous pointers, in either
\* direction
RECURSIVE Linked(_, _)
Linked(c, S) ==
  LET T == (S \cup {c.heap[e].next : e \in S}
              \cup {c.heap[e].previous : e \in S}
              \cup {e \in EntryIds : c.heap[e].next \in S
                                       \/ c.heap[e].previous \in S})
           \ {Nil}
  IN IF T = S THEN S ELSE Linked(c, T)

\* Expired is asked of mapped entries and of the entries the janitor walks to;
\* SizeInBytes is asked, besides, of evicted entries when memory is bounded.
\* An entry that only a frequency bucket holds, with no pointer path between
\* it and the map, the chain or the janitor's cursor, keeps fields that are
\* never read again: they are cleared.
Forget(c, last, e) ==
  IF e \in Linked(c, (Range(c.entries) \cup {c.head, c.tail, last} \cup c.held)
                        \ {Nil})
  THEN c.heap[e]
  ELSE [c.heap[e] EXCEPT
          !.Expiration = NoExpiration,
          !.Value = IF maxMemoryUsage = NoMaxMemoryUsage THEN NoValue ELSE @]

\* The cache with every unreachable object reclaimed
Collect(c, last) ==
  LET liveEntries == Reach(c, Roots(c, last))
      liveItems == Range(c.freqs)
                   \cup {c.heap[e].frequencyParent : e \in liveEntries}
  IN [c EXCEPT !.heap = [e \in EntryIds |->
                           IF e \in liveEntries THEN Forget(c, last, e)
                           ELSE FreeEntry],
               !.items = [it \in ItemIds |->
                            IF it \in liveItems THEN c.items[it] ELSE FreeItem]]

\* ------------------------------------------------------------ the actions
WithinCaps(c) ==
  /\ c.stats.EvictedKeys + c.stats.ExpiredKeys + c.stats.Hits + c.stats.Misses
       <= MaxStat
  /\ \A it \in Range(c.freqs) : c.items[it].Freq <= MaxFreq
  /\ Cardinality({e \in EntryIds : c.heap[e] # FreeEntry}) <= MaxEntries

\* History of the calls: a Set that stores puts its key first and records the
\* value; under LeastRecentlyUsed a Get that finds its key puts it first.
\* Keys that left the map are dropped.
Touched(call) ==
  \/ call.op = "SetWithTTL" /\ call.ttl \in GoodTTLs
  \/ call.op = "Get" /\ call.ok /\ evictionPolicy = LeastRecentlyUsed

\* The keys of hits put first one after the other
RECURSIVE Promote(_, _)
Promote(o, hits) ==
  IF hits = <<>> THEN o
  ELSE Promote(<<Head(hits)>> \o SelectSeq(o, LAMBDA k : k # Head(hits)),
               Tail(hits))

OrderAfter(call, mapped) ==
  LET o == IF Touched(call)
           THEN <<call.key>> \o SelectSeq(order, LAMBDA k : k # call.key)
           ELSE IF evictionPolicy = LeastRecentlyUsed
           THEN Promote(order, call.hits)
           ELSE order
  IN SelectSeq(o, LAMBDA k : k \in mapped)

LastSetAfter(call, mapped) ==
  [k \in Keys |->
     IF k \notin mapped THEN NoValue
     ELSE IF call.op = "SetWithTTL" /\ call.ttl \in GoodTTLs /\ call.key = k
     THEN call.value
     ELSE lastSet[k]]

Call(op, key, value, ttl, ok) ==
  [op |-> op, key |-> key, value |-> value, ttl |-> ttl, ok |-> ok,
   arg |-> <<>>, number |-> 0, entries |-> <<>>, hits |-> <<>>]

\* A call of a pattern or of a list of keys, with the number or the map it
\* returns
CallReturning(op, arg, number, result) ==
  [Call(op, NoKey, NoValue, 0, TRUE) EXCEPT
     !.arg = arg, !.number = number, !.entries = result]

\* The calls whose arguments and result are kept in returned until the next
\* step
Recorded == {"DeleteKeysByPattern", "GetByKeys", "Clear"}

NoCall == Call("-", NoKey, NoValue, 0, FALSE)

\* An Expire with a ttl that lies in the past is kept as well.
ReturnedAfter(call) ==
  IF \/ call.op \in Recorded
     \/ call.op = "Expire" /\ call.ttl \in ExpireAnyTTLs \ ExpireTTLs
  THEN call
  ELSE NoCall

\* A handler that holds the mutex ends in cache r with the janitor's cursor
\* at last; a panic ends the process, a hang keeps the mutex for ever.
Finish(r, last, call) ==
  IF r.panicked \/ r.hung
  THEN /\ status' = IF r.panicked THEN "panicked" ELSE "hung"
       /\ returned' = NoCall
       /\ UNCHANGED <<entries, heap, head, tail, freqs, items, memoryUsage,
                      stats, lastTraversedNode, lastSet, order>>
  ELSE /\ \E g \in {Collect(r, last)} :
             /\ WithinCaps(g)
             /\ entries' = g.entries
             /\ heap' = g.heap
             /\ head' = g.head
             /\ tail' = g.tail
             /\ freqs' = g.freqs
             /\ items' = g.items
             /\ memoryUsage' = g.memoryUsage
             /\ stats' = g.stats
       /\ lastTraversedNode' = last
       /\ lastSet' = LastSetAfter(call, DOMAIN r.entries)
       /\ order' = OrderAfter(call, DOMAIN r.entries)
       /\ returned' = ReturnedAfter(call)
       /\ UNCHANGED status

\* NewCache with the options WithEvictionPolicy, WithMaxSize, WithMaxMemoryUsage
NewCache(policy, size, memory) ==
  /\ maxSize = size
  /\ maxMemoryUsage = memory
  /\ evictionPolicy = policy
  /\ entries = <<>>
  /\ heap = [e \in EntryIds |-> FreeEntry]
  /\ head = Nil
  /\ tail = Nil
  /\ freqs = <<>>
  /\ items = [it \in ItemIds |-> FreeItem]
  /\ memoryUsage = 0
  /\ stats = [EvictedKeys |-> 0, ExpiredKeys |-> 0, Hits |-> 0, Misses |-> 0]
  /\ stopJanitor = FALSE
  /\ lastTraversedNode = Nil
  /\ backOff = JanitorMinShiftBackOff
  /\ janitorPc = "none"
  /\ stopPc = "idle"
  /\ expiring = NoExpire
  /\ racerPc = "idle"
  /\ racerJanitor = FALSE
  /\ status = "running"
  /\ lastSet = [k \in Keys |-> NoValue]
  /\ order = <<>>
  /\ returned = NoCall

\* Set is SetWithTTL with NoExpiration; SetAll is a sequence of such calls.
SetWithTTL(key, value, ttl) ==
  /\ status = "running"
  /\ \E r \in setWithTTL(Cache, key, value, ttl) :
       Finish(r, lastTraversedNode, Call("SetWithTTL", key, value, ttl, TRUE))
  /\ UNCHANGED <<config, racers, janitorState>>

\* GetValue is Get without the boolean; GetByKeys is a sequence of Get calls.
Get(key) ==
  /\ status = "running"
  /\ LET g == getLocked(Cache, key)
     IN Finish(g.c, lastTraversedNode, Call("Get", key, g.value, 0, g.ok))
  /\ UNCHANGED <<config, racers, janitorState>>

\* Lists of keys to get
KeyLists == {<<"a">>, <<"a", "b">>}

\* GetByKeys returns with the result r.
GetByKeysReturns(keys, r) ==
  Finish(r.c, lastTraversedNode,
         [CallReturning("GetByKeys", keys, 0, r.entries) EXCEPT !.hits = r.hits])

GetByKeys(keys) ==
  /\ status = "running"
  /\ GetByKeysReturns(
       keys, getByKeys(keys, [c |-> Cache, entries |-> <<>>, hits |-> <<>>]))
  /\ UNCHANGED <<config, racers, janitorState>>

\* GetAll between Lock and Unlock: the cache it leaves and the map it
\* returns, which holds the entries the loop did not delete
getAll(c) ==
  {[c |-> [r EXCEPT !.stats.Hits = @ + Len0(r)],
    entries |-> [key \in DOMAIN r.entries |-> r.heap[r.entries[key]].Value]]
   : r \in getAllLoop(c, DOMAIN c.entries)}

GetAll ==
  /\ status = "running"
  /\ \E r \in getAll(Cache) :
       Finish(r.c, lastTraversedNode, Call("GetAll", NoKey, NoValue, 0, TRUE))
  /\ UNCHANGED <<config, racers, janitorState>>

Delete(key) ==
  /\ status = "running"
  /\ Finish(delete(Cache, key), lastTraversedNode,
            Call("Delete", key, NoValue, 0, key \in DOMAIN entries))
  /\ UNCHANGED <<config, racers, janitorState>>

\* Clear without the reset of c.memoryUsage
clearKeepingUsage(c) ==
  [c EXCEPT !.entries = <<>>, !.head = Nil, !.tail = Nil]

\* Clear that starts the statistics again
clearResettingStats(c) ==
  [c EXCEPT !.entries = <<>>, !.memoryUsage = 0, !.head = Nil, !.tail = Nil,
            !.stats = [EvictedKeys |-> 0, ExpiredKeys |-> 0, Hits |-> 0,
                       Misses |-> 0]]

\* Clear between Lock and Unlock
clear(c) ==
  [c EXCEPT !.entries = <<>>, !.memoryUsage = 0, !.head = Nil, !.tail = Nil]

\* The call is recorded with the number of entries it dropped.
Clear ==
  /\ status = "running"
  /\ Finish(clear(Cache), lastTraversedNode,
            CallReturning("Clear", <<>>, Len0(Cache), <<>>))
  /\ UNCHANGED <<config, racers, janitorState>>

\* Expire without the test of Expired
expireExpired(c, key, ttl) ==
  IF key \notin DOMAIN c.entries THEN [c |-> c, ok |-> FALSE]
  ELSE [c |-> [c EXCEPT !.heap[c.entries[key]].Expiration = ExpirationFor(ttl)],
        ok |-> TRUE]

\* Expire takes no lock; here it runs with no other call in between.
expire(c, key, ttl) ==
  IF key \notin DOMAIN c.entries \/ Expired(c.heap[c.entries[key]])
  THEN [c |-> c, ok |-> FALSE]
  ELSE [c |-> [c EXCEPT !.heap[c.entries[key]].Expiration = ExpirationFor(ttl)],
        ok |-> TRUE]

Expire(key, ttl) ==
  /\ status = "running"
  /\ LET r == expire(Cache, key, ttl)
     IN Finish(r.c, lastTraversedNode, Call("Expire", key, NoValue, ttl, r.ok))
  /\ UNCHANGED <<config, racers, janitorState>>

\* Expire up to its test: entry, ok := c.get(key) finds an entry that is not
\* expired, and the call holds no lock.
ExpireLookup(key, ttl) ==
  /\ status = "running"
  /\ expiring = NoExpire
  /\ key \in DOMAIN entries
  /\ ~Expired(heap[entries[key]])
  /\ expiring' = [entry |-> entries[key], ttl |-> ttl]
  /\ returned' = NoCall
  /\ UNCHANGED <<config, racers, entries, heap, head, tail, freqs, items,
                 memoryUsage,
                 stats, stopJanitor, lastTraversedNode, backOff, janitorPc,
                 stopPc, status, lastSet, order>>

\* entry.Expiration = ... of Expire, on the entry its lookup found
ExpireWrite ==
  /\ status = "running"
  /\ expiring # NoExpire
  /\ Finish([Cache EXCEPT !.heap[expiring.entry].Expiration =
                            ExpirationFor(expiring.ttl),
                          !.held = {}],
            lastTraversedNode,
            Call("Expire", heap[expiring.entry].Key, NoValue, expiring.ttl, TRUE))
  /\ expiring' = NoExpire
  /\ UNCHANGED <<config, racers, stopJanitor, backOff, janitorPc, stopPc>>

\* StartJanitor that does not look at c.stopJanitor
StartJanitorAgain ==
  /\ status = "running"
  /\ stopPc = "idle"
  /\ stopJanitor' = TRUE
  /\ janitorPc' = "select"
  /\ lastTraversedNode' = Nil
  /\ backOff' = JanitorMinShiftBackOff
  /\ returned' = Call("StartJanitor", NoKey, NoValue, 0, TRUE)
  /\ UNCHANGED <<config, racers, entries, heap, head, tail, freqs, items,
                 memoryUsage,
                 stats, stopPc, expiring, status, lastSet, order>>

\* StartJanitor and StopJanitor are called from one goroutine.  The call is
\* recorded with ok for a nil error; the goroutine starts at its select with
\* fresh locals.
StartJanitor ==
  /\ status = "running"
  /\ stopPc = "idle"
  /\ IF stopJanitor
     THEN /\ returned' = Call("StartJanitor", NoKey, NoValue, 0, FALSE)
          /\ UNCHANGED <<stopJanitor, janitorPc, lastTraversedNode, backOff>>
     ELSE /\ stopJanitor' = TRUE
          /\ janitorPc' = "select"
          /\ lastTraversedNode' = Nil
          /\ backOff' = JanitorMinShiftBackOff
          /\ returned' = Call("StartJanitor", NoKey, NoValue, 0, TRUE)
  /\ UNCHANGED <<config, racers, entries, heap, head, tail, freqs, items,
                 memoryUsage,
                 stats, stopPc, expiring, status, lastSet, order>>

\* StopJanitor up to its send: with no channel it returns at once.
StopJanitor ==
  /\ status = "running"
  /\ stopPc = "idle"
  /\ stopPc' = IF stopJanitor THEN "send" ELSE "idle"
  /\ returned' = NoCall
  /\ UNCHANGED <<config, racers, entries, heap, head, tail, freqs, items,
                 memoryUsage,
                 stats, stopJanitor, lastTraversedNode, backOff, janitorPc,
                 expiring, status, lastSet, order>>

\* c.stopJanitor <- true of StopJanitor meets case <-c.stopJanitor of the
\* janitor: the channel has no buffer.
StopJanitorSend ==
  /\ status = "running"
  /\ stopPc = "send"
  /\ janitorPc = "select"
  /\ stopPc' = "receive"
  /\ janitorPc' = "reply"
  /\ returned' = NoCall
  /\ UNCHANGED <<config, racers, entries, heap, head, tail, freqs, items,
                 memoryUsage,
                 stats, stopJanitor, lastTraversedNode, backOff, expiring,
                 status, lastSet, order>>

\* The janitor that goes back to its select after it replied
janitorPcAfterLoop == "select"

\* The janitor after c.stopJanitor <- true: return
janitorPcAfterReply == "none"

\* c.stopJanitor <- true of the janitor meets <-c.stopJanitor of StopJanitor;
\* the janitor goroutine ends with its locals.
StopJanitorReceive ==
  /\ status = "running"
  /\ stopPc = "receive"
  /\ janitorPc = "reply"
  /\ stopPc' = "clear"
  /\ janitorPc' = janitorPcAfterReply
  /\ backOff' = JanitorMinShiftBackOff
  /\ Finish(Cache, Nil, Call("StopJanitor", NoKey, NoValue, 0, TRUE))
  /\ UNCHANGED <<config, racers, stopJanitor, expiring>>

\* c.stopJanitor = nil, and StopJanitor returns
StopJanitorReturn ==
  /\ status = "running"
  /\ stopPc = "clear"
  /\ stopJanitor' = FALSE
  /\ stopPc' = "idle"
  /\ returned' = Call("StopJanitor", NoKey, NoValue, 0, TRUE)
  /\ UNCHANGED <<config, racers, entries, heap, head, tail, freqs, items,
                 memoryUsage,
                 stats, lastTraversedNode, backOff, janitorPc, expiring,
                 status, lastSet, order>>

\* The slice ends as j tells.
JanitorEnds(j) ==
  /\ Finish(j.c, j.last, Call("Janitor", NoKey, NoValue, 0, TRUE))
  /\ backOff' = IF j.c.panicked THEN backOff ELSE j.backOff

\* case <-time.After(backOff)
Janitor ==
  /\ status = "running"
  /\ janitorPc = "select"
  /\ \E j \in {janitorShift(Cache, lastTraversedNode, backOff)} :
       JanitorEnds(j)
  /\ UNCHANGED <<config, racers, stopJanitor, janitorPc, stopPc, expiring>>

\* What a step of the second caller leaves alone
cacheState == <<entries, heap, head, tail, freqs, items, memoryUsage, stats,
                lastTraversedNode, backOff, expiring, status, lastSet, order>>

\* if c.stopJanitor != nil { return ErrJanitorAlreadyRunning } of a
\* StartJanitor called from a second goroutine: StartJanitor takes no lock,
\* so its test and its assignment are two steps.
RacerStartCheck ==
  /\ status = "running"
  /\ racerPc = "idle"
  /\ racerPc' = IF stopJanitor THEN "refused" ELSE "start"
  /\ returned' = NoCall
  /\ UNCHANGED <<config, cacheState, stopJanitor, janitorPc, stopPc,
                 racerJanitor>>

\* c.stopJanitor = make(chan bool); go func() { ... }(); return nil of that
\* call.  Of the goroutine it starts the model keeps that it is live.
RacerStartCreate ==
  /\ status = "running"
  /\ racerPc = "start"
  /\ stopJanitor' = TRUE
  /\ racerJanitor' = TRUE
  /\ racerPc' = "started"
  /\ returned' = NoCall
  /\ UNCHANGED <<config, cacheState, janitorPc, stopPc>>

\* if c.stopJanitor != nil of a StopJanitor called from a second goroutine
RacerStopCheck ==
  /\ status = "running"
  /\ racerPc = "idle"
  /\ racerPc' = IF stopJanitor THEN "send" ELSE "stopped"
  /\ returned' = NoCall
  /\ UNCHANGED <<config, cacheState, stopJanitor, janitorPc, stopPc,
                 racerJanitor>>

\* c.stopJanitor <- true of the second caller meets a receive on the channel:
\* case <-c.stopJanitor of the janitor, or <-c.stopJanitor of the first caller.
RacerStopSend ==
  /\ status = "running"
  /\ racerPc = "send"
  /\ \/ /\ janitorPc = "select"
        /\ janitorPc' = "reply"
        /\ UNCHANGED stopPc
     \/ /\ stopPc = "receive"
        /\ stopPc' = "clear"
        /\ UNCHANGED janitorPc
  /\ racerPc' = "sent"
  /\ returned' = NoCall
  /\ UNCHANGED <<config, cacheState, stopJanitor, racerJanitor>>

\* The second caller reads c.stopJanitor for its receive: a receive from a
\* nil channel blocks for ever.
RacerStopEvaluate ==
  /\ status = "running"
  /\ racerPc = "sent"
  /\ racerPc' = IF stopJanitor THEN "receive" ELSE "blocked"
  /\ returned' = NoCall
  /\ UNCHANGED <<config, cacheState, stopJanitor, janitorPc, stopPc,
                 racerJanitor>>

\* <-c.stopJanitor of the second caller meets a send on the channel: the
\* reply of the janitor, which then ends with its locals, or the signal of
\* the first caller.
RacerStopReceive ==
  /\ status = "running"
  /\ racerPc = "receive"
  /\ \/ /\ janitorPc = "reply"
        /\ janitorPc' = janitorPcAfterReply
        /\ backOff' = JanitorMinShiftBackOff
        /\ Finish(Cache, Nil, NoCall)
        /\ UNCHANGED stopPc
     \/ /\ stopPc = "send"
        /\ stopPc' = "receive"
        /\ returned' = NoCall
        /\ UNCHANGED <<janitorPc, backOff, entries, heap, head, tail, freqs,
                       items, memoryUsage, stats, lastTraversedNode, status,
                       lastSet, order>>
  /\ racerPc' = "clear"
  /\ UNCHANGED <<config, expiring, stopJanitor, racerJanitor>>

\* c.stopJanitor = nil of the second caller, which returns
RacerStopClear ==
  /\ status = "running"
  /\ racerPc = "clear"
  /\ stopJanitor' = FALSE
  /\ racerPc' = "stopped"
  /\ returned' = NoCall
  /\ UNCHANGED <<config, cacheState, janitorPc, stopPc, racerJanitor>>

\* TTL that removes the entry it finds expired, as Get does
ttlRemovingExpired(c, key) ==
  IF key \in DOMAIN c.entries /\ Expired(c.heap[c.entries[key]])
  THEN [c |-> delete(c, key), timeUntilExpiration |-> 0,
        err |-> "ErrKeyDoesNotExist"]
  ELSE [c |-> c, timeUntilExpiration |-> 0, err |-> "ErrKeyDoesNotExist"]

\* TTL between RLock and RUnlock and after: what it returns
ttlLocked(c, key) ==
  IF key \notin DOMAIN c.entries
  THEN [c |-> c, timeUntilExpiration |-> 0, err |-> "ErrKeyDoesNotExist"]
  ELSE LET entry == c.heap[c.entries[key]] IN
       IF entry.Expiration = NoExpiration
       THEN [c |-> c, timeUntilExpiration |-> 0, err |-> "ErrKeyHasNoExpiration"]
       ELSE IF entry.Expiration - Now < 0
       THEN [c |-> c, timeUntilExpiration |-> 0, err |-> "ErrKeyDoesNotExist"]
       ELSE [c |-> c, timeUntilExpiration |-> entry.Expiration - Now,
             err |-> "nil"]

TTL(key) ==
  /\ status = "running"
  /\ Finish(ttlLocked(Cache, key).c, lastTraversedNode,
            Call("TTL", key, NoValue, 0, ttlLocked(Cache, key).err = "nil"))
  /\ UNCHANGED <<config, racers, janitorState>>

\* A key as the sequence of its characters: the keys here are one character
\* long.
KeyChars(key) == <<key>>

\* Key patterns, as character sequences, and limits of GetKeysByPattern
Patterns == {<<"*">>, <<"a">>, <<"?", "?">>}
Limits == {0, 1}

\* MatchPattern: * matches any run of characters, ? exactly one character,
\* every other character itself.
RECURSIVE MatchPattern(_, _)
MatchPattern(pattern, key) ==
  IF pattern = <<>> THEN key = <<>>
  ELSE IF Head(pattern) = "*"
  THEN \/ MatchPattern(Tail(pattern), key)
       \/ key # <<>> /\ MatchPattern(pattern, Tail(key))
  ELSE /\ key # <<>>
       /\ Head(pattern) = "?" \/ Head(pattern) = Head(key)
       /\ MatchPattern(Tail(pattern), Tail(key))

\* The range loop without the test of Expired
RECURSIVE getKeysWithExpired(_, _, _, _, _)
getKeysWithExpired(c, todo, matchingKeys, pattern, limit) ==
  IF todo = {} THEN {matchingKeys}
  ELSE UNION {
         IF MatchPattern(pattern, KeyChars(key))
         THEN IF limit > 0 /\ Len(matchingKeys) + 1 >= limit
              THEN {Append(matchingKeys, key)}
              ELSE getKeysWithExpired(c, todo \ {key},
                                      Append(matchingKeys, key), pattern, limit)
         ELSE getKeysWithExpired(c, todo \ {key}, matchingKeys, pattern, limit)
         : key \in todo}

\* The range loop of GetKeysByPattern over c.entries, in any order, with the
\* keys still to visit and the slice built so far: the slices it can return.
RECURSIVE getKeysByPatternLoop(_, _, _, _, _)
getKeysByPatternLoop(c, todo, matchingKeys, pattern, limit) ==
  IF todo = {} THEN {matchingKeys}
  ELSE UNION {
         IF Expired(c.heap[c.entries[key]])
         THEN getKeysByPatternLoop(c, todo \ {key}, matchingKeys, pattern, limit)
         ELSE IF MatchPattern(pattern, KeyChars(key))
         THEN IF limit > 0 /\ Len(matchingKeys) + 1 >= limit
              THEN {Append(matchingKeys, key)}
              ELSE getKeysByPatternLoop(c, todo \ {key},
                                        Append(matchingKeys, key), pattern, limit)
         ELSE getKeysByPatternLoop(c, todo \ {key}, matchingKeys, pattern, limit)
         : key \in todo}

\* GetKeysByPattern that deletes the expired entries, as GetAll does
getKeysDeletingExpired(c, pattern, limit) ==
  {[c |-> g, keys |-> matchingKeys] :
     g \in getAllLoop(c, DOMAIN c.entries),
     matchingKeys \in getKeysByPatternLoop(c, DOMAIN c.entries, <<>>, pattern, limit)}

\* GetKeysByPattern between Lock and Unlock: the cache it leaves and the keys
\* it returns
getKeysByPattern(c, pattern, limit) ==
  {[c |-> c, keys |-> matchingKeys] :
     matchingKeys \in getKeysByPatternLoop(c, DOMAIN c.entries, <<>>, pattern, limit)}

GetKeysByPattern(pattern, limit) ==
  /\ status = "running"
  /\ \E r \in getKeysByPattern(Cache, pattern, limit) :
       Finish(r.c, lastTraversedNode,
              Call("GetKeysByPattern", NoKey, NoValue, 0, TRUE))
  /\ UNCHANGED <<config, racers, janitorState>>

\* DeleteAll between Lock and Unlock: the cache it leaves and the number it
\* returns
RECURSIVE deleteAll(_, _)
deleteAll(c, keys) ==
  IF keys = <<>> \/ c.panicked THEN [c |-> c, numberOfKeysDeleted |-> 0]
  ELSE LET r == deleteAll(delete(c, Head(keys)), Tail(keys))
       IN [r EXCEPT !.numberOfKeysDeleted =
                      @ + IF Head(keys) \in DOMAIN c.entries THEN 1 ELSE 0]

\* DeleteKeysByPattern is DeleteAll of the keys GetKeysByPattern returns.
deleteKeysByPattern(c, pattern) ==
  {deleteAll(r.c, r.keys) : r \in getKeysByPattern(c, pattern, 0)}

DeleteKeysByPattern(pattern) ==
  /\ status = "running"
  /\ \E r \in deleteKeysByPattern(Cache, pattern) :
       Finish(r.c, lastTraversedNode,
              CallReturning("DeleteKeysByPattern", pattern,
                            r.numberOfKeysDeleted, <<>>))
  /\ UNCHANGED <<config, racers, janitorState>>

\* The clock advances by one unit: every instant that is stored is one unit
\* nearer.  An instant that has passed stays passed, however long ago it was.
Tick ==
  /\ status = "running"
  /\ heap' = [e \in EntryIds |->
                IF heap[e].Expiration >= Now
                THEN [heap[e] EXCEPT !.Expiration = @ - 1]
                ELSE heap[e]]
  /\ returned' = NoCall
  /\ UNCHANGED <<config, racers, entries, head, tail, freqs, items, memoryUsage,
                 stats, stopJanitor, lastTraversedNode, backOff, janitorPc,
                 stopPc, expiring, status, lastSet, order>>

\* The calls of the clients of the cache
Next ==
  \/ \E key \in Keys, value \in Values, ttl \in GoodTTLs : SetWithTTL(key, value, ttl)
  \/ \E key \in Keys, ttl \in BadTTLs : SetWithTTL(key, 1, ttl)
  \/ \E key \in Keys : Get(key)
  \/ GetAll
  \/ \E key \in Keys : Delete(key)
  \/ Clear
  \/ \E key \in Keys, ttl \in ExpireTTLs : Expire(key, ttl)
  \/ \E key \in Keys : TTL(key)
  \/ GetKeysByPattern(<<"*">>, 0)
  \/ Tick

\* The keys of the calls that run next to the janitor
JanitorKeys == {"a", "b"}

\* The clients' calls next to the janitor, which is started once
NextJanitor ==
  \/ \E key \in JanitorKeys, ttl \in GoodTTLs : SetWithTTL(key, 1, ttl)
  \/ \E key \in JanitorKeys : Get(key)
  \/ \E key \in JanitorKeys : Delete(key)
  \/ Clear
  \/ ~stopJanitor /\ StartJanitor
  \/ Janitor
  \/ Tick

\* The start and the stop of the janitor next to the Sets
NextStop ==
  \/ \E key \in JanitorKeys, ttl \in GoodTTLs : SetWithTTL(key, 1, ttl)
  \/ StartJanitor
  \/ StopJanitor
  \/ StopJanitorSend
  \/ StopJanitorReceive
  \/ StopJanitorReturn
  \/ Janitor
  \/ Tick

\* The calls by pattern next to the calls of Next
NextCalls ==
  \/ \E key \in Keys, value \in Values, ttl \in GoodTTLs : SetWithTTL(key, value, ttl)
  \/ \E key \in Keys : Get(key)
  \/ \E pattern \in Patterns : DeleteKeysByPattern(pattern)
  \/ \E pattern \in Patterns, limit \in Limits : GetKeysByPattern(pattern, limit)
  \/ \E key \in Keys : TTL(key)
  \/ Clear
  \/ Tick

\* The calls by key with every ttl
NextKeys ==
  \/ \E key \in Keys, value \in NilValues, ttl \in GoodTTLs : SetWithTTL(key, value, ttl)
  \/ \E keys \in KeyLists : GetByKeys(keys)
  \/ \E key \in Keys, ttl \in ExpireAnyTTLs : Expire(key, ttl)
  \/ \E key \in Keys : TTL(key)
  \/ Tick

\* The Sets before the janitor is left alone with the clock; every entry
\* that is stored can still be counted as expired within MaxStat.
NextSweep ==
  \/ \E key \in JanitorKeys, ttl \in GoodTTLs :
       /\ stats.EvictedKeys + stats.ExpiredKeys + stats.Hits + stats.Misses
            + Len0(Cache) < MaxStat
       /\ SetWithTTL(key, 1, ttl)
  \/ ~stopJanitor /\ StartJanitor
  \/ Janitor
  \/ Tick

\* Expire in its two steps next to the calls that hold the mutex
NextRace ==
  \/ \E key \in JanitorKeys, ttl \in GoodTTLs : SetWithTTL(key, 1, ttl)
  \/ \E key \in JanitorKeys : Delete(key)
  \/ \E key \in JanitorKeys, ttl \in ExpireTTLs : ExpireLookup(key, ttl)
  \/ ExpireWrite
  \/ Tick

\* Two goroutines call StartJanitor at once, next to Sets and the clock.
NextStartRace ==
  \/ \E key \in JanitorKeys, ttl \in GoodTTLs : SetWithTTL(key, 1, ttl)
  \/ StartJanitor
  \/ RacerStartCheck
  \/ RacerStartCreate
  \/ Janitor
  \/ Tick

\* Two goroutines call StopJanitor at once while the janitor started before
\* runs, next to Sets and the clock.
NextStopRace ==
  \/ \E ttl \in GoodTTLs : SetWithTTL("a", 1, ttl)
  \/ ~stopJanitor /\ racerPc = "idle" /\ StartJanitor
  \/ StopJanitor
  \/ StopJanitorSend
  \/ StopJanitorReceive
  \/ StopJanitorReturn
  \/ RacerStopCheck
  \/ RacerStopSend
  \/ RacerStopEvaluate
  \/ RacerStopReceive
  \/ RacerStopClear
  \/ Janitor
  \/ Tick

\* Every policy, with a size bound and with none
Init ==
  \E policy \in EvictionPolicy, size \in {NoMaxSize, 1} :
    NewCache(policy, size, NoMaxMemoryUsage)

InitFIFO == \E size \in {1, 2} : NewCache(FirstInFirstOut, size, NoMaxMemoryUsage)

InitLRU == \E size \in {1, 2} : NewCache(LeastRecentlyUsed, size, NoMaxMemoryUsage)

\* Every policy, with a memory bound and no size bound
InitMemory ==
  \E policy \in EvictionPolicy : NewCache(policy, NoMaxSize, MemLimit)

\* Every policy, with no bound
InitCalls ==
  \E policy \in EvictionPolicy : NewCache(policy, NoMaxSize, NoMaxMemoryUsage)

Spec == Init /\ [][Next]_vars

SpecMemory == InitMemory /\ [][Next]_vars

SpecCalls == InitCalls /\ [][NextCalls]_vars

SpecKeys == InitCalls /\ [][NextKeys]_vars

SpecFIFO == InitFIFO /\ [][Next]_vars

SpecJanitor == Init /\ [][NextJanitor]_vars

SpecStop == InitCalls /\ [][NextStop]_vars

SpecRace == InitCalls /\ [][NextRace]_vars

\* The timer of the janitor's select fires again and again.
SpecSweep == InitCalls /\ [][NextSweep]_vars /\ WF_vars(Janitor)

SpecStartRace == InitCalls /\ [][NextStartRace]_vars

\* A goroutine that can take its next step of the hand-shake takes it.
SpecStopRace ==
  /\ InitCalls
  /\ [][NextStopRace]_vars
  /\ WF_vars(StopJanitorSend)
  /\ WF_vars(StopJanitorReceive)
  /\ WF_vars(StopJanitorReturn)
  /\ WF_vars(RacerStopSend)
  /\ WF_vars(RacerStopEvaluate)
  /\ WF_vars(RacerStopReceive)
  /\ WF_vars(RacerStopClear)

SpecLRU == InitLRU /\ [][Next]_vars

\* ------------------------------------------------------------ properties
\* The entries met by walking from e through next, each once
RECURSIVE Walk(_, _)
Walk(e, seen) ==
  IF e = Nil \/ e \in seen THEN <<>>
  ELSE <<e>> \o Walk(heap[e].next, seen \cup {e})

\* The recency chain from head, and its keys
Chain == Walk(head, {})

ChainKeys == [i \in 1..Len(Chain) |-> heap[Chain[i]].Key]

\* Count()
Count == Len0(Cache)

\* The entries of the front bucket of the frequency index
FrontBucket == IF Front(Cache) = Nil THEN {} ELSE items[Front(Cache)].Entries

\* The buckets of the frequency index that hold entry e
BucketsOf(e) == {it \in Range(freqs) : e \in items[it].Entries}

IsExpired(key) == key \in DOMAIN entries /\ Expired(heap[entries[key]])

\* A Set that stores a key the map does not hold, in a full cache
SetOverflows(key, value, ttl) ==
  /\ maxSize # NoMaxSize
  /\ key \notin DOMAIN entries
  /\ Count >= maxSize
  /\ SetWithTTL(key, value, ttl)
  /\ status' = "running"

\* C1: on a cache built with max_size = N > 0, Count() <= N after every
\* operation, under every policy.
SizeBound == maxSize # NoMaxSize => Count <= maxSize

\* C2: the walk of the recency chain from head through next meets as many
\* entries as the map holds, and meets every mapped entry exactly once.
ChainMatchesMap ==
  /\ Len(Chain) = Count
  /\ \A key \in DOMAIN entries :
       Cardinality({i \in 1..Len(Chain) : Chain[i] = entries[key]}) = 1

\* C3: head is absent iff tail is absent iff the map is empty; in a non-empty
\* cache head has no previous neighbour and tail has no next neighbour.
HeadTailShape ==
  /\ (head = Nil) <=> (tail = Nil)
  /\ (tail = Nil) <=> (Count = 0)
  /\ (Count > 0 /\ head # Nil /\ tail # Nil)
       => heap[head].previous = Nil /\ heap[tail].next = Nil

\* C4: under LFU every mapped entry is in exactly one frequency bucket, the
\* one its back-pointer names; every member of every bucket is mapped; no
\* bucket of the frequency index is empty.
BucketsSound ==
  evictionPolicy = LeastFrequentUsed =>
    /\ \A key \in DOMAIN entries :
         /\ heap[entries[key]].frequencyParent # Nil
         /\ BucketsOf(entries[key]) = {heap[entries[key]].frequencyParent}
    /\ \A it \in Range(freqs) :
         /\ items[it].Entries # {}
         /\ \A e \in items[it].Entries :
              /\ heap[e].Key \in DOMAIN entries
              /\ entries[heap[e].Key] = e

\* Under FIFO a Set that overflows evicts exactly the tail, which holds the
\* key whose most recent Set is the oldest, and puts the new key at the head.
FIFOEvictsOldestSet ==
  \A key \in Keys, value \in Values, ttl \in GoodTTLs :
    SetOverflows(key, value, ttl) =>
      /\ DOMAIN entries' = (DOMAIN entries \cup {key}) \ {heap[tail].Key}
      /\ heap[tail].Key = order[Len(order)]
      /\ stats'.EvictedKeys = stats.EvictedKeys + 1
      /\ ChainKeys' = <<key>> \o SubSeq(ChainKeys, 1, Len(ChainKeys) - 1)

\* C5: under FIFO with max_size = N and no memory bound, a Get of a key that
\* is absent or not expired leaves the recency chain as it is, a Get of an
\* expired key takes that key alone out of the chain, and a Set of a new key
\* that makes the count exceed N evicts exactly the tail, the key whose most
\* recent Set is the oldest, however it was read.
FIFOOrder ==
  [][/\ \A key \in Keys :
          Get(key) =>
            ChainKeys' = IF IsExpired(key)
                         THEN SelectSeq(ChainKeys, LAMBDA k : k # key)
                         ELSE ChainKeys
     /\ FIFOEvictsOldestSet]_vars

\* C5 as stated: under FIFO no Get changes the recency chain, and a Set that
\* overflows evicts exactly the tail.
FIFOGetNeverChangesChain ==
  [][/\ \A key \in Keys : Get(key) => ChainKeys' = ChainKeys
     /\ FIFOEvictsOldestSet]_vars

\* An eviction happened in a full FIFO cache of two entries that was read.
FIFOEvictedAfterReads ==
  /\ evictionPolicy = FirstInFirstOut
  /\ maxSize = 2
  /\ Count = 2
  /\ stats.EvictedKeys >= 1
  /\ stats.Hits >= 1

\* C6: under LRU with max_size = N and no memory bound, a Set of a new key
\* that makes the count exceed N evicts exactly one entry, the key whose most
\* recent access (Set or successful Get) is the oldest; GetAll,
\* GetKeysByPattern, TTL and Expire move no key in the chain.
LRUOrder ==
  [][/\ \A key \in Keys, value \in Values, ttl \in GoodTTLs :
          SetOverflows(key, value, ttl) =>
            /\ DOMAIN entries' =
                 (DOMAIN entries \cup {key}) \ {order[Len(order)]}
            /\ stats'.EvictedKeys = stats.EvictedKeys + 1
            /\ ChainKeys' = <<key>> \o SubSeq(ChainKeys, 1, Len(ChainKeys) - 1)
     /\ (\/ GetAll
         \/ GetKeysByPattern(<<"*">>, 0)
         \/ \E key \in Keys : TTL(key)
         \/ \E key \in Keys, ttl \in ExpireTTLs : Expire(key, ttl))
          => ChainKeys' = SelectSeq(ChainKeys, LAMBDA k : k \in DOMAIN entries')
     /\ ChainKeys' = order']_vars

\* An eviction happened in a full LRU cache of two entries after a Get found
\* its key.
LRUEvictedAfterReads ==
  /\ evictionPolicy = LeastRecentlyUsed
  /\ maxSize = 2
  /\ Count = 2
  /\ stats.EvictedKeys >= 1
  /\ stats.Hits >= 1
  /\ ChainKeys = order

\* C7: under LFU with max_size = N, a Set of a new key that makes the count
\* exceed N evicts exactly the entries of the lowest-count bucket: no entry
\* of a higher count, and not the key being set.
LFUEvictsFrontBucket ==
  [][\A key \in Keys, value \in Values, ttl \in GoodTTLs :
       (evictionPolicy = LeastFrequentUsed /\ SetOverflows(key, value, ttl))
         => /\ DOMAIN entries \ DOMAIN entries'
                 = {heap[e].Key : e \in FrontBucket}
            /\ \A k \in DOMAIN entries \ DOMAIN entries' :
                 entries[k] \in FrontBucket
            /\ key \in DOMAIN entries']_vars

\* C8: Get of a key that is mapped and not expired finds it and returns the
\* value of the most recent Set of that key; the key has one entry.
RoundTrip ==
  \A key \in DOMAIN entries :
    ~Expired(heap[entries[key]]) =>
      /\ ~getLocked(Cache, key).c.panicked
      /\ getLocked(Cache, key).ok
      /\ getLocked(Cache, key).value = lastSet[key]
      /\ \A other \in DOMAIN entries :
           heap[entries[other]].Key = key => other = key

\* A key set twice and never read holds the second value, under LFU where the
\* bucket counts the two Sets.
SetTwice ==
  /\ evictionPolicy = LeastFrequentUsed
  /\ maxSize = 1
  /\ stats.Hits = 0
  /\ \E key \in DOMAIN entries :
       /\ ~Expired(heap[entries[key]])
       /\ heap[entries[key]].frequencyParent # Nil
       /\ items[heap[entries[key]].frequencyParent].Freq = 2
       /\ lastSet[key] = 2

\* C9: Get of a mapped key whose expiration has passed returns not found, as
\* for a key never stored, removes the entry from the map, the chain and
\* (under LFU) its bucket, and adds exactly one to the expired counter while
\* hits stay.
ActiveExpiry ==
  [][\A key \in Keys :
       (IsExpired(key) /\ Get(key)) =>
         /\ status' = "running"
         /\ ~getLocked(Cache, key).ok
         /\ key \notin DOMAIN entries'
         /\ key \in DOMAIN entries =>
              /\ entries[key] \notin Range(Chain')
              /\ \A it \in Range(freqs') : entries[key] \notin items'[it].Entries
         /\ stats'.ExpiredKeys = stats.ExpiredKeys + 1
         /\ stats'.Hits = stats.Hits]_vars

\* C10: SetWithTTL with a ttl that is neither NoExpiration nor positive
\* creates nothing and changes nothing when the key is absent, removes the
\* key from map, chain and bucket when it is mapped, and evicts nothing.
SetWithBadTTLDeletes ==
  [][\A key \in Keys, ttl \in BadTTLs :
       SetWithTTL(key, 1, ttl) =>
         /\ status' = "running"
         /\ key \notin DOMAIN entries => UNCHANGED vars
         /\ key \notin DOMAIN entries'
         /\ key \in DOMAIN entries =>
              /\ entries[key] \notin Range(Chain')
              /\ \A it \in Range(freqs') : entries[key] \notin items'[it].Entries
         /\ stats'.EvictedKeys = stats.EvictedKeys]_vars

\* C11: after SetWithTTL(k, v, ttl) with ttl = NoExpiration or ttl > 0
\* completes, the entry for k is the head of the recency chain, under every
\* policy and every bounds configuration.
SetPutsKeyAtHead ==
  [][\A key \in Keys, value \in Values, ttl \in GoodTTLs :
       (SetWithTTL(key, value, ttl) /\ status' = "running")
         => /\ key \in DOMAIN entries'
            /\ head' = entries'[key]]_vars

\* The entries met by walking from e through previous, each once
RECURSIVE WalkBack(_, _)
WalkBack(e, seen) ==
  IF e = Nil \/ e \in seen THEN <<>>
  ELSE <<e>> \o WalkBack(heap[e].previous, seen \cup {e})

\* The keys of the recency chain from tail
BackChainKeys ==
  [i \in 1..Len(WalkBack(tail, {})) |-> heap[WalkBack(tail, {})[i]].Key]

Reverse(seq) == [i \in 1..Len(seq) |-> seq[Len(seq) + 1 - i]]

\* C12: Delete(k) completes; on a mapped key (it then returns true) it takes
\* the key out of the map, the chain and its bucket, links the former
\* neighbours to each other and keeps the order of the other entries; on an
\* absent key (it then returns false) it changes nothing.
DeleteUnlinks ==
  [][\A key \in Keys :
       Delete(key) =>
         /\ status' = "running"
         /\ key \notin DOMAIN entries => UNCHANGED vars
         /\ key \in DOMAIN entries =>
              /\ key \notin DOMAIN entries'
              /\ entries[key] \notin Range(Chain')
              /\ \A it \in Range(freqs') : entries[key] \notin items'[it].Entries
              /\ ChainKeys' = SelectSeq(ChainKeys, LAMBDA k : k # key)
              /\ BackChainKeys' = Reverse(ChainKeys')]_vars

\* The keys of the map that match a pattern
Matching(pattern) ==
  {key \in DOMAIN entries : MatchPattern(pattern, KeyChars(key))}

\* The key is mapped before and after the step, to an entry of the same
\* value and expiration.
Untouched(key) ==
  /\ key \in DOMAIN entries /\ key \in DOMAIN entries'
  /\ heap'[entries'[key]].Value = heap[entries[key]].Value
  /\ heap'[entries'[key]].Expiration = heap[entries[key]].Expiration

\* Every number DeleteKeysByPattern can return is the number of keys that
\* left the map.
ReturnsNumberRemoved(pattern) ==
  \A r \in deleteKeysByPattern(Cache, pattern) :
    ~r.c.panicked =>
      r.numberOfKeysDeleted = Cardinality(DOMAIN entries \ DOMAIN r.c.entries)

ClearEmpties ==
  [][Clear =>
       /\ status' = "running"
       /\ Count' = 0
       /\ head' = Nil /\ tail' = Nil
       /\ memoryUsage' = 0
       /\ stats' = stats]_vars

\* Clear has just dropped an entry of a cache with a memory bound whose
\* counters are not all 0.
ClearedUsedCache ==
  /\ returned.op = "Clear"
  /\ returned.number >= 1
  /\ maxMemoryUsage # NoMaxMemoryUsage
  /\ stats.Hits >= 1
  /\ stats.Misses >= 1

\* C15: TTL(k) fails with ErrKeyDoesNotExist when k is absent or its stored
\* expiration lies in the past, fails with ErrKeyHasNoExpiration when the
\* expiration is NoExpiration, and otherwise returns expiration - now, which is
\* not negative, with no error; in every case it modifies nothing.
TTLReportsAndKeeps ==
  [][\A key \in Keys :
       TTL(key) =>
         /\ UNCHANGED <<config, entries, heap, head, tail, freqs, items,
                        memoryUsage, stats, status>>
         /\ LET r == ttlLocked(Cache, key)
                Expiration == heap[entries[key]].Expiration
            IN IF key \notin DOMAIN entries THEN r.err = "ErrKeyDoesNotExist"
               ELSE IF Expiration = NoExpiration
               THEN r.err = "ErrKeyHasNoExpiration"
               ELSE IF Expiration < Now THEN r.err = "ErrKeyDoesNotExist"
               ELSE /\ r.err = "nil"
                    /\ r.timeUntilExpiration = Expiration - Now
                    /\ r.timeUntilExpiration >= 0]_vars

\* TTL has just been called on a cache that holds a key whose expiration lies
\* in the past and a key with time left.
TTLOfExpiredAndLive ==
  /\ status = "running"
  /\ returned = NoCall
  /\ \E k1, k2 \in DOMAIN entries :
       /\ ttlLocked(Cache, k1).err = "ErrKeyDoesNotExist"
       /\ ttlLocked(Cache, k2).err = "nil"
       /\ ttlLocked(Cache, k2).timeUntilExpiration = 1
       /\ stats.ExpiredKeys = 0

\* What an Expire(key, ttl) that returns true leaves: the entry of the key has
\* the expiration of the ttl, and nothing else has changed.
ExpireKeeps(key, ttl) ==
  /\ status' = "running"
  /\ heap' = [heap EXCEPT ![entries[key]].Expiration = ExpirationFor(ttl)]
  /\ UNCHANGED <<config, entries, head, tail, freqs, items, memoryUsage, stats>>
  /\ ChainKeys' = ChainKeys

IsLive(key) == key \in DOMAIN entries /\ ~IsExpired(key)

\* What GetByKeys(keys) returns in this state
GetByKeysResult(keys) ==
  getByKeys(keys, [c |-> Cache, entries |-> <<>>, hits |-> <<>>]).entries

FrequencyOf(key) ==
  IF heap[entries[key]].frequencyParent = Nil THEN 0
  ELSE items[heap[entries[key]].frequencyParent].Freq

\* C18: GetAll returns exactly the key/value pairs of the mapped entries that
\* are not expired, removes every expired entry from the map and the chain,
\* adds the number of pairs returned to hits, and leaves the order of the
\* chain and the frequencies of the surviving entries unchanged.
GetAllReturnsLive ==
  [][GetAll =>
       /\ status' = "running"
       /\ \A r \in getAll(Cache) :
            r.entries = [key \in {k \in DOMAIN entries : IsLive(k)} |->
                           heap[entries[key]].Value]
       /\ DOMAIN entries' = {k \in DOMAIN entries : IsLive(k)}
       /\ \A key \in DOMAIN entries :
            IsExpired(key) => entries[key] \notin Range(Chain')
       /\ stats'.Hits = stats.Hits + Cardinality(DOMAIN entries')
       /\ SelectSeq(ChainKeys', LAMBDA k : k \in DOMAIN entries')
            = SelectSeq(ChainKeys, LAMBDA k : k \in DOMAIN entries')
       /\ \A key \in DOMAIN entries' : FrequencyOf(key)' = FrequencyOf(key)]_vars

\* The mapped keys that are not expired and match the pattern
LiveMatching(pattern) == {key \in Matching(pattern) : IsLive(key)}

\* C19: GetKeysByPattern(p, limit) returns only keys that are mapped, not
\* expired and match p, none of them twice: all of them with limit = 0, and
\* as many as the smaller of limit and their number with limit > 0; it leaves
\* the whole cache unchanged.
GetKeysByPatternReadsOnly ==
  [][\A pattern \in Patterns, limit \in Limits :
       GetKeysByPattern(pattern, limit) =>
         /\ UNCHANGED <<config, entries, heap, head, tail, freqs, items,
                        memoryUsage, stats, status>>
         /\ \A r \in getKeysByPattern(Cache, pattern, limit) :
              /\ Range(r.keys) \subseteq LiveMatching(pattern)
              /\ Cardinality(Range(r.keys)) = Len(r.keys)
              /\ Len(r.keys) =
                   IF limit = 0 \/ Cardinality(LiveMatching(pattern)) < limit
                   THEN Cardinality(LiveMatching(pattern))
                   ELSE limit]_vars

\* GetKeysByPattern has just been called on a cache that holds an expired key
\* and a live key that both match the pattern "*": it returns the live key
\* alone and both keys are still in the map.
GotKeysSkippingExpired ==
  /\ status = "running"
  /\ returned = NoCall
  /\ \E k1, k2 \in DOMAIN entries :
       /\ IsExpired(k1)
       /\ IsLive(k2)
       /\ {r.keys : r \in getKeysByPattern(Cache, <<"*">>, 0)} = {<<k2>>}

RECURSIVE SizeOfAll(_)
SizeOfAll(S) ==
  IF S = {} THEN 0
  ELSE LET key == CHOOSE k \in S : TRUE
       IN SizeInBytes(heap[entries[key]]) + SizeOfAll(S \ {key})

\* C21: after every operation memory_usage >= 0; with max_memory enabled it
\* equals the sum of the estimated sizes of the entries in the map; with
\* max_memory = NoMaxMemoryUsage it is 0.
MemoryAccounting ==
  /\ memoryUsage >= 0
  /\ maxMemoryUsage # NoMaxMemoryUsage => memoryUsage = SizeOfAll(DOMAIN entries)
  /\ maxMemoryUsage = NoMaxMemoryUsage => memoryUsage = 0

\* What the slice that the janitor can run now would meet
Shift == janitorShift(Cache, lastTraversedNode, backOff)

\* C29: whatever the clients did between the slices, a slice starts from the
\* saved cursor only if the cursor's key still maps to that same entry and
\* from the tail otherwise, and every entry it visits or deletes is, at that
\* moment, in the map and in the recency chain.
JanitorVisitsMapped ==
  [][Janitor =>
       /\ tail # Nil =>
            Shift.visits[1].entry =
              IF lastTraversedNode # Nil /\ isInCache(Cache, lastTraversedNode)
              THEN lastTraversedNode ELSE tail
       /\ \A i \in DOMAIN Shift.visits :
            Shift.visits[i].inMap /\ Shift.visits[i].inChain]_vars

\* C22: none of the four statistics counters is ever lowered, by any call or
\* by any slice of the janitor.
StatsNeverDecrease ==
  [][/\ stats'.Hits >= stats.Hits
     /\ stats'.Misses >= stats.Misses
     /\ stats'.EvictedKeys >= stats.EvictedKeys
     /\ stats'.ExpiredKeys >= stats.ExpiredKeys]_vars

\* A Clear returned after the janitor had removed an expired entry and a Get
\* had been counted.
ClearedAfterSweep ==
  /\ returned.op = "Clear"
  /\ janitorPc = "select"
  /\ stats.ExpiredKeys >= 1
  /\ stats.Hits + stats.Misses >= 1

\* A step of Set, Delete, TTL or Expire
SetDeleteTTLOrExpire ==
  \/ \E key \in Keys, value \in Values, ttl \in GoodTTLs \cup BadTTLs :
       SetWithTTL(key, value, ttl)
  \/ \E key \in Keys : Delete(key) \/ TTL(key)
  \/ \E key \in Keys, ttl \in ExpireTTLs : Expire(key, ttl)

\* C23: a Get of an absent key adds one to misses and changes no other
\* counter and nothing else of the cache; a Get of a mapped key that is not
\* expired adds one to hits and changes no other counter; Set, Delete, TTL and
\* Expire change neither hits nor misses.
GetCountsHitsAndMisses ==
  [][/\ \A key \in Keys :
          Get(key) =>
            IF key \notin DOMAIN entries
            THEN /\ stats' = [stats EXCEPT !.Misses = @ + 1]
                 /\ UNCHANGED <<entries, heap, head, tail, freqs, items,
                                memoryUsage>>
            ELSE IsExpired(key) \/ stats' = [stats EXCEPT !.Hits = @ + 1]
     /\ \/ stats'.Hits = stats.Hits /\ stats'.Misses = stats.Misses
        \/ ~SetDeleteTTLOrExpire]_vars

\* One Get found its key and one did not.
HitAndMissCounted ==
  /\ stats.Hits = 1
  /\ stats.Misses = 1
  /\ stats.ExpiredKeys = 0
  /\ Count >= 1

\* C24: StartJanitor returns nil and starts the janitor when none is running;
\* called while the janitor is live it returns ErrJanitorAlreadyRunning, starts
\* no second goroutine and leaves the running one, its channel and its locals
\* as they are.
StartJanitorOnce ==
  [][StartJanitor =>
       /\ returned'.op = "StartJanitor"
       /\ IF stopJanitor
          THEN /\ ~returned'.ok
               /\ janitorPc = "select"
               /\ UNCHANGED <<stopJanitor, janitorPc, lastTraversedNode, backOff,
                              entries, heap, head, tail, stats>>
          ELSE /\ returned'.ok
               /\ janitorPc = "none"
               /\ stopJanitor'
               /\ janitorPc' = "select"]_vars

\* StartJanitor returned its error while the janitor, whose back-off had
\* grown and whose cursor was set, was running.
StartJanitorRefused ==
  /\ returned.op = "StartJanitor"
  /\ ~returned.ok
  /\ janitorPc = "select"
  /\ lastTraversedNode # Nil
  /\ backOff > JanitorMinShiftBackOff

\* The janitor goroutine is where the hand-shake of StopJanitor needs it: at
\* its select until the stop signal is received, at its reply until the reply
\* is received, gone afterwards and whenever there is no channel.
HandShakeOrder ==
  /\ stopPc = "send" => janitorPc = "select" /\ stopJanitor
  /\ stopPc = "receive" => janitorPc = "reply" /\ stopJanitor
  /\ stopPc = "clear" => janitorPc = "none" /\ stopJanitor
  /\ ~stopJanitor => janitorPc = "none" /\ stopPc = "idle"

\* C26: StopJanitor, called by one caller while the janitor is live, returns
\* only after the janitor received the stop signal and replied on the same
\* channel; when it returns the janitor goroutine has ended, the channel is
\* cleared so that StartJanitor can succeed, and no slice runs from the moment
\* the signal is received until the next StartJanitor; with no janitor
\* running StopJanitor returns at once and changes nothing.
StopHandShake ==
  /\ []HandShakeOrder
  /\ [][/\ StopJanitorReturn =>
            /\ janitorPc = "none"
            /\ ~stopJanitor'
            /\ stopPc' = "idle"
            /\ janitorPc' = "none"
            /\ lastTraversedNode' = Nil
        /\ Janitor => stopJanitor /\ stopPc \in {"idle", "send"}
        /\ (StopJanitor /\ ~stopJanitor) =>
             UNCHANGED <<config, entries, heap, head, tail, freqs, items,
                         memoryUsage, stats, janitorState, lastTraversedNode,
                         status>>]_vars

\* StopJanitor returned after the janitor had removed an expired entry.
StoppedAfterSweep ==
  /\ returned.op = "StopJanitor"
  /\ returned.ok
  /\ ~stopJanitor
  /\ janitorPc = "none"
  /\ stats.ExpiredKeys >= 1

\* No entry of the map is expired.
NoneExpired == \A key \in DOMAIN entries : ~IsExpired(key)

\* C25: with the janitor running and, from some moment on, no call of a
\* client, every mapped entry whose expiration has passed is eventually
\* removed, and every slice adds to the expired counter exactly the number of
\* entries it removed.
SweepRemovesExpired ==
  /\ (<>[][Janitor \/ Tick]_vars /\ <>[](janitorPc = "select"))
       => <>[]NoneExpired
  /\ [][Janitor =>
          stats'.ExpiredKeys - stats.ExpiredKeys = Count - Count']_vars

\* C27: with a memory bound M, a Set of an entry whose estimated size alone
\* exceeds M returns, leaves the new entry in the map with its value, and
\* evicts every other entry, under every policy.
OversizeSetStores ==
  [][\A key \in Keys, value \in Values, ttl \in GoodTTLs :
       (/\ maxMemoryUsage # NoMaxMemoryUsage
        /\ SizeInBytes([Value |-> value]) > maxMemoryUsage
        /\ SetWithTTL(key, value, ttl))
         => /\ status' = "running"
            /\ DOMAIN entries' = {key}
            /\ heap'[entries'[key]].Value = value]_vars

\* C28: Expire does its lookup, its test and its write under the mutex: no
\* call changes the cache between the lookup and the write, and the write
\* goes to an entry that is still the one its key maps to.
ExpireHoldsLock ==
  [][/\ (expiring # NoExpire /\ expiring' # NoExpire) =>
          UNCHANGED <<entries, head, tail, freqs, items, memoryUsage, stats>>
     /\ ExpireWrite => isInCache(Cache, expiring.entry)]_vars

\* backOff doubled, capped at the maximum
Doubled(bo) ==
  IF bo * 2 <= JanitorMaxShiftBackOff THEN bo * 2 ELSE JanitorMaxShiftBackOff

\* C30 as stated: the back-off starts at the minimum and stays within
\* [minimum, maximum]; after every slice on a non-empty cache it is the
\* minimum if the slice found an expired entry, however the slice ended, and
\* doubled (capped) otherwise; on an empty cache it is doubled (capped).
BackOffAfterEverySlice ==
  /\ [](backOff \in JanitorMinShiftBackOff..JanitorMaxShiftBackOff)
  /\ [][~stopJanitor /\ StartJanitor => backOff' = JanitorMinShiftBackOff]_vars
  /\ [][Janitor /\ status' = "running" =>
          backOff' = IF tail # Nil /\ Shift.found >= 1
                     THEN JanitorMinShiftBackOff ELSE Doubled(backOff)]_vars

\* C30: the back-off starts at the minimum and stays within [minimum,
\* maximum]; a slice on a non-empty cache adjusts it only when it stops on its
\* budget or target (minimum if it found an expired entry, doubled and capped
\* otherwise) and leaves it as it was when it stops at the head; on an empty
\* cache it is doubled (capped).
BackOffRule ==
  /\ [](backOff \in JanitorMinShiftBackOff..JanitorMaxShiftBackOff)
  /\ [][~stopJanitor /\ StartJanitor => backOff' = JanitorMinShiftBackOff]_vars
  /\ [][Janitor /\ status' = "running" =>
          backOff' = CASE Shift.ended = "empty" -> Doubled(backOff)
                       [] Shift.ended = "budget" ->
                            IF Shift.found >= 1 THEN JanitorMinShiftBackOff
                            ELSE Doubled(backOff)
                       [] OTHER -> backOff]_vars

\* A slice has stopped on its budget with the back-off at the maximum and the
\* cursor saved.
BackOffDoubledToMax ==
  /\ janitorPc = "select"
  /\ tail # Nil
  /\ lastTraversedNode # Nil
  /\ backOff = JanitorMaxShiftBackOff

\* C31: within one slice the janitor visits at most
\* JanitorMaxIterationsPerShift entries and deletes at most JanitorShiftTarget
\* expired entries, and the slice always ends, on a budget, at the head, off
\* the chain or on an empty cache, and releases the lock.
JanitorWorkBudget ==
  [][Janitor =>
       /\ Len(Shift.visits) <= JanitorMaxIterationsPerShift
       /\ Shift.found <= JanitorShiftTarget
       /\ Shift.ended \in {"budget", "head", "nil", "empty"}
       /\ status' = "running"]_vars

\* C32: every SetWithTTL call terminates and releases the lock, under every
\* policy and every bounds configuration; the eviction loop that runs while
\* memory_usage > max_memory ends, with the bound satisfied or with the cache
\* empty, even when the entry set is alone larger than max_memory.
SetTerminates ==
  [][\/ status' = "running" /\ (memoryUsage' <= maxMemoryUsage \/ Count' = 0)
     \/ ~(\E key \in Keys, value \in Values, ttl \in GoodTTLs \cup BadTTLs :
            SetWithTTL(key, value, ttl))]_vars

\* The keys of S that keep their entry over the step keep its frequency.
FrequenciesKept(S) ==
  \A k \in S \cap DOMAIN entries \cap DOMAIN entries' :
    entries'[k] = entries[k] => FrequencyOf(k)' = FrequencyOf(k)

\* C33: under LFU a Set that creates a key puts it in the bucket with count
\* 1; each Get that finds its key and each Set of a mapped key raises that
\* entry's frequency by exactly 1 and changes no other entry's frequency;
\* GetAll, GetKeysByPattern, TTL and Expire change no frequency (GetByKeys is
\* a sequence of Gets, Count reads the length of the map).
LFUBookkeeping ==
  [][(evictionPolicy = LeastFrequentUsed /\ status' = "running") =>
       /\ \A key \in Keys :
            /\ \A value \in Values, ttl \in GoodTTLs :
                 (SetWithTTL(key, value, ttl) /\ key \in DOMAIN entries') =>
                   /\ FrequencyOf(key)' =
                        IF key \in DOMAIN entries THEN FrequencyOf(key) + 1
                        ELSE 1
                   /\ FrequenciesKept(Keys \ {key})
            /\ (IsLive(key) /\ Get(key)) =>
                 /\ FrequencyOf(key)' = FrequencyOf(key) + 1
                 /\ FrequenciesKept(Keys \ {key})
            /\ (TTL(key) \/ \E ttl \in ExpireTTLs : Expire(key, ttl)) =>
                 FrequenciesKept(Keys)
       /\ (GetAll \/ GetKeysByPattern(<<"*">>, 0)) => FrequenciesKept(Keys)]_vars

\* C34: under LFU, after every operation the counts of the buckets along the
\* frequency index are strictly increasing from front to back.
BucketCountsIncrease ==
  evictionPolicy = LeastFrequentUsed =>
    \A i, j \in DOMAIN freqs :
      i < j => items[freqs[i]].Freq < items[freqs[j]].Freq

\* Two buckets are in the index, and the entry that is mapped is in the one
\* at the back.
TwoBucketsInOrder ==
  /\ evictionPolicy = LeastFrequentUsed
  /\ Len(freqs) = 2
  /\ \E key \in DOMAIN entries :
       heap[entries[key]].frequencyParent = freqs[2]

\* The keys a Set of key with a ttl that stores took out of the map
EvictedBySet(key) == (DOMAIN entries \cup {key}) \ DOMAIN entries'

\* C35: during any Set the evicted counter grows by exactly the number of
\* entries that eviction removed from the map in that call, one per entry,
\* also when an LFU pass removes a whole bucket; under FIFO and LRU a Set that
\* exceeds the size bound evicts exactly one entry; the counter does not grow
\* when no mapped entry was removed.
EvictionCounting ==
  [][/\ \A key \in Keys, value \in Values, ttl \in GoodTTLs :
          (SetWithTTL(key, value, ttl) /\ status' = "running") =>
            /\ stats'.EvictedKeys - stats.EvictedKeys
                 = Cardinality(EvictedBySet(key))
            /\ (evictionPolicy # LeastFrequentUsed /\ maxSize # NoMaxSize
                /\ maxMemoryUsage = NoMaxMemoryUsage
                /\ key \notin DOMAIN entries /\ Count >= maxSize)
                 => stats'.EvictedKeys - stats.EvictedKeys = 1
     /\ \A key \in Keys, ttl \in BadTTLs :
          SetWithTTL(key, 1, ttl) => stats'.EvictedKeys = stats.EvictedKeys]_vars

\* C36: under LFU with a memory bound a SetWithTTL that updates a mapped key
\* never evicts that key in its own eviction step: the call returns, the key
\* is still mapped to the same entry, and the bucket the final access put the
\* entry in is part of the frequency index.
LFUUpdateKeepsKey ==
  [][\A key \in Keys, value \in Values, ttl \in GoodTTLs :
       (/\ evictionPolicy = LeastFrequentUsed
        /\ maxMemoryUsage # NoMaxMemoryUsage
        /\ key \in DOMAIN entries
        /\ SetWithTTL(key, value, ttl))
         => /\ status' = "running"
            /\ key \in DOMAIN entries'
            /\ entries'[key] = entries[key]
            /\ heap'[entries'[key]].frequencyParent \in Range(freqs')]_vars

\* C37: a slice of the janitor removes only expired entries: every mapped
\* entry that is not expired is still mapped after the slice, with its value
\* and its expiration, and the entries left in the chain are in the order
\* they had.
JanitorRemovesOnlyExpired ==
  [][(Janitor /\ status' = "running") =>
       /\ \A key \in DOMAIN entries :
            ~IsExpired(key) =>
              /\ key \in DOMAIN entries'
              /\ entries'[key] = entries[key]
              /\ heap'[entries[key]].Value = heap[entries[key]].Value
              /\ heap'[entries[key]].Expiration = heap[entries[key]].Expiration
       /\ Chain' = SelectSeq(Chain, LAMBDA e : e \in Range(Chain'))]_vars

\* C38: whatever the interleaving of StartJanitor calls made at once from
\* different goroutines, at most one janitor goroutine is live at a time,
\* exactly one of the calls returns nil and every other returns
\* ErrJanitorAlreadyRunning.
SingleJanitorUnderRaces ==
  /\ ~(janitorPc # "none" /\ racerJanitor)
  /\ racerPc = "started" => janitorPc = "none"
  /\ racerPc = "refused" => janitorPc # "none"

\* Both callers are in StopJanitor, past its test, and the janitor runs.
BothStopping == stopPc = "send" /\ racerPc = "send" /\ janitorPc = "select"

\* C39: whatever the interleaving of two StopJanitor calls made at once
\* while the janitor is live, both calls return in the end, the janitor
\* goroutine has ended and c.stopJanitor is nil.
StopRaceEnds ==
  BothStopping ~>
    (stopPc = "idle" /\ racerPc = "stopped" /\ janitorPc = "none"
     /\ ~stopJanitor)

\* The mapped keys whose entries had expired and that the step took out of
\* the map
ExpiredRemoved == {k \in DOMAIN entries \ DOMAIN entries' : IsExpired(k)}

\* C40: the expired counter grows by exactly one for every entry that is
\* removed from the map because it had expired, whichever path removes it
\* (the check of Get, GetAll, a slice of the janitor), and by nothing else.
ExpiredCounting ==
  [][status' = "running" =>
       stats'.ExpiredKeys - stats.ExpiredKeys =
         IF GetAll \/ Janitor \/ \E key \in Keys : Get(key)
         THEN Cardinality(ExpiredRemoved) ELSE 0]_vars
====
